---- MODULE Spec2Model ----
(***************************************************************************)
(* Model of the open-loop linear-actuator servo controller                 *)
(* (src/src/models/linear_servo.py, class LinearServo).                    *)
(*                                                                         *)
(* Units.  Angles are integers (degrees).  length_inches is an integer     *)
(* number of inches, mm_per_second is kept in tenths of a millimetre per   *)
(* second (254 stands for 25.4 mm/s), motor power 1.0 / -1.0 is 1 / -1 and *)
(* time_needed is kept in milliseconds (rounded down).                     *)
(*                                                                         *)
(* Scheduling.  The code runs on one asyncio event loop: the code between  *)
(* two awaits is one atomic step.  A coroutine is suspended only in        *)
(* `await motor.set_power`, `await asyncio.sleep` and `await motor.stop`;  *)
(* at each of them the motor call may fail and the task may be cancelled   *)
(* (CancelledError is raised at the await).                                *)
(***************************************************************************)
EXTENDS Integers, Sequences, FiniteSets, TLC

VARIABLES
    self,        \* the instance attributes set by reconfigure (lines 22-29, 92-97)
    position,    \* self.position, the estimated angle (line 23, 98, 159)
    configured,  \* TRUE once a reconfigure has completed (an instance exists)
    configError, \* outcome of the latest configuration event ("" = accepted)
    tasks,       \* the coroutines: calibration tasks and caller-issued moves
    motorPower,  \* the power the motor driver last accepted (0 = stopped)
    nConfigure,  \* number of configuration events so far
    nMove,       \* number of caller-issued moves so far
    nFault,      \* number of motor faults and cancellations so far
    obs,         \* a caller's record of its last get_position (observation only)
    physical     \* the actuator's physical angle (calibration study only)

\* The controller's own state.
vars == <<self, position, configured, configError, tasks, motorPower, nConfigure, nMove, nFault>>

\* The controller together with its observer and the actuator.
allvars == <<vars, obs, physical>>

\* ---------------------------------------------------------------- bounds
MaxConfigure == 2
MaxMove == 1
MaxFault == 1


\* ------------------------------------------------------- program constants
DefaultPosition == 0
DefaultStartPosition == 90
DefaultMaxPositionDegrees == 180
DefaultMinPositionDegrees == 0
DefaultTotalDegrees == 180
TenthsMmPerInch == 254

\* The motors the host can resolve (the `dependencies` mapping of reconfigure).
Dependencies == {"motor1"}

\* The required attributes of a well-formed configuration.
Required == [motor |-> "motor1", length_inches |-> 18, mm_per_second |-> 254]

\* The attribute bags the host supplies, as struct_to_dict(config.attributes)
\* returns them: a key that is absent from the configuration is absent here.
Configs ==
    { Required,
      Required @@ [start_position |-> 200],
      Required @@ [max_position_degrees |-> 100, min_position_degrees |-> 20,
                   total_degrees |-> 80, start_position |-> 45],
      Required @@ [max_position_degrees |-> 50, min_position_degrees |-> 100],
      Required @@ [total_degrees |-> 0],
      [motor |-> "motor1", length_inches |-> 18, mm_per_second |-> 0],
      [length_inches |-> 18, mm_per_second |-> 254],
      [motor |-> "motor1", mm_per_second |-> 254],
      [motor |-> "motor1", length_inches |-> 18] }

\* The angles callers pass to move (besides the current estimate itself).
Angles == {-10, 60, 200}

\* ------------------------------------------------------------- helpers
Max(a, b) == IF a >= b THEN a ELSE b
Min(a, b) == IF a <= b THEN a ELSE b
Abs(a) == IF a < 0 THEN -a ELSE a

\* attributes.get(key, default)
Get(attributes, key, default) ==
    IF key \in DOMAIN attributes THEN attributes[key] ELSE default

\* A validate_config that checks the motor alone.
validate_config_motor_only(attributes) ==
    IF "motor" \notin DOMAIN attributes THEN "motor is required" ELSE ""

\* validate_config: the error it raises, "" when it returns.
validate_config(attributes) ==
    IF "motor" \notin DOMAIN attributes THEN "motor is required"
    ELSE IF "length_inches" \notin DOMAIN attributes THEN "length_inches is required"
    ELSE IF "mm_per_second" \notin DOMAIN attributes THEN "mm_per_second is required"
    ELSE ""

\* A clamp that forgets the upper bound.
ClampLowerOnly(angle, minp, maxp) == Max(minp, angle)

\* target_position = max(self.min_position_degrees, min(angle, self.max_position_degrees))
Clamp(angle, minp, maxp) == Max(minp, Min(angle, maxp))

\* Lines 143 and 148 divide by total_degrees and by mm_per_second.
DivisionByZero(s) == s.total_degrees = 0 \/ s.mm_per_second = 0

\* A duration that keeps the sign of the distance.
TimeNeededSigned(s, degrees_to_move) ==
    (degrees_to_move * s.length_inches * TenthsMmPerInch * 1000)
        \div (s.total_degrees * s.mm_per_second)

\* A duration that takes the travel in inches for millimetres.
TimeNeededNoConversion(s, degrees_to_move) ==
    (Abs(degrees_to_move) * s.length_inches * 10 * 1000)
        \div (s.total_degrees * s.mm_per_second)

\* time_needed of lines 143-148, in milliseconds (1000 per second of asyncio.sleep).
TimeNeeded(s, degrees_to_move) ==
    (Abs(degrees_to_move) * s.length_inches * TenthsMmPerInch * 1000)
        \div (s.total_degrees * s.mm_per_second)

\* A direction that is always forward.
PowerAlwaysForward(degrees_to_move) == 1

\* power = 1.0 if degrees_to_move > 0 else -1.0
Power(degrees_to_move) == IF degrees_to_move > 0 THEN 1 ELSE -1

\* --------------------------------------------------------------- tasks
\* A coroutine of the controller: a calibration task (initialize, scheduled by
\* reconfigure) or a caller-issued move.
\*   pc              where it is suspended: "scheduled" (not yet run), "set_power",
\*                   "sleep", "stop" (awaiting that call), "returned" (a move has just
\*                   returned; transient), "done", "failed", "cancelled"
\*   err             the exception that ended it
\*   target_position initialize's local of line 108
\*   target, power, time_needed   the locals of the move invocation in progress
\*   before          the sleeping tasks whose timers are due no later than this one's
\*   schedPos        history: self.position when the task was scheduled
\*   calls           history: one entry per move invocation (its argument, the bounds
\*                   and the estimate when it was called, the motor commands it issued,
\*                   whether the motor accepted its set_power)
\*   rets            history: one entry per move invocation that returned normally
\*                   (the estimate and the bounds at that moment)
NewTask(kind, pos) ==
    [kind |-> kind, pc |-> "scheduled", err |-> "", target_position |-> 0,
     target |-> 0, power |-> 0, time_needed |-> 0, before |-> {},
     schedPos |-> pos, calls |-> <<>>, rets |-> <<>>]

Suspended == {"set_power", "sleep", "stop"}
Ended == {"done", "failed", "cancelled"}

\* The entry `rets` gets when a move invocation returns.
Returned(s, pos) ==
    [pos |-> pos, min |-> s.min_position_degrees, max |-> s.max_position_degrees]

\* The task issues a command to the motor within its current move invocation.
Issue(tk, cmd) == [tk EXCEPT !.calls[Len(tk.calls)].cmds = Append(@, cmd)]

\* move, lines 133-154: from the call up to its first suspension (the set_power
\* call), its early return (nothing to move) or the ZeroDivisionError of the
\* duration computation.
BeginMove(s, pos, tk, angle) ==
    LET target_position == Clamp(angle, s.min_position_degrees, s.max_position_degrees)
        degrees_to_move == target_position - pos
        called == [tk EXCEPT !.target = target_position,
                             !.calls = Append(@, [angle |-> angle, pos |-> pos,
                                                  min |-> s.min_position_degrees,
                                                  max |-> s.max_position_degrees,
                                                  cmds |-> <<>>, ran |-> FALSE])]
    IN  IF degrees_to_move = 0
        THEN [called EXCEPT !.pc = "returned", !.rets = Append(@, Returned(s, pos))]
        ELSE IF DivisionByZero(s)
        THEN [called EXCEPT !.pc = "failed", !.err = "ZeroDivisionError"]
        ELSE [Issue(called, "set_power") EXCEPT
                 !.pc = "set_power",
                 !.power = Power(degrees_to_move),
                 !.time_needed = TimeNeeded(s, degrees_to_move)]

\* A calibration that does not drive to the upper bound.
CalibrationAngleSkipsMax(s, tk) ==
    IF Len(tk.calls) = 0 THEN s.min_position_degrees
    ELSE tk.target_position

\* The argument of the calibration's next move (lines 112, 116, 120).
CalibrationAngle(s, tk) ==
    IF Len(tk.calls) = 0 THEN s.min_position_degrees
    ELSE IF Len(tk.calls) = 1 THEN s.max_position_degrees
    ELSE tk.target_position

\* What the caller of a move that has just returned does next, without
\* suspending: initialize calls its next move (or ends after the third), the
\* handler of a caller-issued move ends.
Advance(s, pos, tk) ==
    IF tk.pc # "returned" THEN tk
    ELSE IF tk.kind = "cal" /\ Len(tk.calls) < 3
    THEN BeginMove(s, pos, tk, CalibrationAngle(s, tk))
    ELSE [tk EXCEPT !.pc = "done"]

\* The task runs until it suspends or ends (at most three moves and the end).
Run(s, pos, tk) == Advance(s, pos, Advance(s, pos, Advance(s, pos, Advance(s, pos, tk))))

\* initialize, lines 103-122, from its start: it saves self.position and calls
\* its first move.
initialize(s, pos, tk) ==
    Run(s, pos, [tk EXCEPT !.pc = "returned", !.target_position = pos])

\* move, line 159, and what follows the return: self.position = int(target_position).
FinishMove(s, tk) ==
    Run(s, tk.target, [tk EXCEPT !.pc = "returned",
                                 !.rets = Append(@, Returned(s, tk.target))])

\* reconfigure, lines 92-97: the instance attributes after it.
reconfigure(s, attributes) ==
    [motor |-> attributes.motor,
     length_inches |-> Get(attributes, "length_inches", 0),
     mm_per_second |-> Get(attributes, "mm_per_second", 0),
     max_position_degrees |-> Get(attributes, "max_position_degrees", s.max_position_degrees),
     min_position_degrees |-> Get(attributes, "min_position_degrees", s.min_position_degrees),
     total_degrees |-> Get(attributes, "total_degrees", s.total_degrees)]

\* A start position that falls back to the current estimate.
StartPositionKeepsEstimate(attributes) == Get(attributes, "start_position", position)

\* reconfigure, line 98: self.start_position is the class attribute (never assigned).
StartPosition(attributes) == Get(attributes, "start_position", DefaultStartPosition)

Tasks == 1 .. Len(tasks)

\* The timer of task t has fired: no task has to wake before it any more.
Woken(ts, t) == [u \in DOMAIN ts |-> [ts[u] EXCEPT !.before = @ \ {t}]]

\* ------------------------------------------------------------- the state
Init ==
    /\ self = [motor |-> "", length_inches |-> 0, mm_per_second |-> 0,
               max_position_degrees |-> DefaultMaxPositionDegrees,
               min_position_degrees |-> DefaultMinPositionDegrees,
               total_degrees |-> DefaultTotalDegrees]
    /\ position = DefaultPosition
    /\ configured = FALSE
    /\ configError = ""
    /\ tasks = <<>>
    /\ motorPower = 0
    /\ nConfigure = 0
    /\ nMove = 0
    /\ nFault = 0
    /\ obs = [called |-> FALSE, got |-> DefaultPosition, moved |-> FALSE, reconf |-> FALSE]
    /\ physical = DefaultPosition

\* A reconfiguration that cancels the tasks started under the earlier configuration.
ConfigureCancelsTasks(attributes) ==
    /\ nConfigure < MaxConfigure
    /\ nConfigure' = nConfigure + 1
    /\ IF validate_config(attributes) # ""
       THEN /\ configError' = "Exception"
            /\ UNCHANGED <<self, position, configured, tasks>>
       ELSE IF Get(attributes, "motor", "None") \notin Dependencies
       THEN /\ configError' = "KeyError"
            /\ UNCHANGED <<self, position, configured, tasks>>
       ELSE /\ configError' = ""
            /\ self' = reconfigure(self, attributes)
            /\ position' = StartPosition(attributes)
            /\ configured' = TRUE
            /\ tasks' = Append([u \in DOMAIN tasks |->
                                  IF tasks[u].pc \in Ended THEN tasks[u]
                                  ELSE [tasks[u] EXCEPT !.pc = "cancelled",
                                                        !.err = "CancelledError"]],
                               NewTask("cal", StartPosition(attributes)))
    /\ UNCHANGED <<motorPower, nMove, nFault>>

\* A configuration event: the host validates the attributes (validate_config) and,
\* when they are accepted, constructs or reconfigures the component (reconfigure).
Configure(attributes) ==
    /\ nConfigure < MaxConfigure
    /\ nConfigure' = nConfigure + 1
    /\ IF validate_config(attributes) # ""
       THEN /\ configError' = "Exception"
            /\ UNCHANGED <<self, position, configured, tasks>>
       ELSE IF Get(attributes, "motor", "None") \notin Dependencies
       THEN /\ configError' = "KeyError"
            /\ UNCHANGED <<self, position, configured, tasks>>
       ELSE /\ configError' = ""
            /\ self' = reconfigure(self, attributes)
            /\ position' = StartPosition(attributes)
            /\ configured' = TRUE
            /\ tasks' = Append(tasks, NewTask("cal", StartPosition(attributes)))
    /\ UNCHANGED <<motorPower, nMove, nFault>>

\* The event loop runs a scheduled calibration task for the first time.
CalibrationStart(t) ==
    /\ tasks[t].pc = "scheduled"
    /\ tasks[t].kind = "cal"
    /\ tasks' = [tasks EXCEPT ![t] = initialize(self, position, tasks[t])]
    /\ UNCHANGED <<self, position, configured, configError, motorPower, nConfigure, nMove, nFault>>

\* A move that is refused while another move is in flight.
MoveSerialized(angle) ==
    /\ configured
    /\ nMove < MaxMove
    /\ \A u \in DOMAIN tasks : tasks[u].pc \notin Suspended
    /\ nMove' = nMove + 1
    /\ tasks' = Append(tasks, Run(self, position,
                    BeginMove(self, position, NewTask("move", position), angle)))
    /\ UNCHANGED <<self, position, configured, configError, motorPower, nConfigure, nFault>>

\* A caller invokes move(angle).
Move(angle) ==
    /\ configured
    /\ nMove < MaxMove
    /\ nMove' = nMove + 1
    /\ tasks' = Append(tasks, Run(self, position,
                    BeginMove(self, position, NewTask("move", position), angle)))
    /\ UNCHANGED <<self, position, configured, configError, motorPower, nConfigure, nFault>>

\* motor.set_power returns: the move starts its timed wait (line 155).
SetPowerReturns(t) ==
    /\ tasks[t].pc = "set_power"
    /\ motorPower' = tasks[t].power
    /\ tasks' = [tasks EXCEPT ![t] =
          [@ EXCEPT !.pc = "sleep",
                    !.calls[Len(tasks[t].calls)].ran = TRUE,
                    !.before = {u \in Tasks : /\ u # t
                                              /\ tasks[u].pc = "sleep"
                                              /\ tasks[u].time_needed <= tasks[t].time_needed}]]
    /\ UNCHANGED <<self, position, configured, configError, nConfigure, nMove, nFault>>

\* A set_power failure that is swallowed: the caller goes on as if the move had returned.
SetPowerFailsContinues(t) ==
    /\ nFault < MaxFault
    /\ nFault' = nFault + 1
    /\ tasks[t].pc = "set_power"
    /\ motorPower' \in {motorPower, tasks[t].power}
    /\ tasks' = [tasks EXCEPT ![t] =
          Run(self, position, [@ EXCEPT !.pc = "returned", !.err = "MotorFault"])]
    /\ UNCHANGED <<self, position, configured, configError, nConfigure, nMove>>

\* motor.set_power raises: the move, and a calibration running it, end with the error.
SetPowerFails(t) ==
    /\ nFault < MaxFault
    /\ nFault' = nFault + 1
    /\ tasks[t].pc = "set_power"
    /\ motorPower' \in {motorPower, tasks[t].power}
    /\ tasks' = [tasks EXCEPT ![t] = [@ EXCEPT !.pc = "failed", !.err = "MotorFault"]]
    /\ UNCHANGED <<self, position, configured, configError, nConfigure, nMove>>

\* asyncio.sleep(time_needed) returns and the move calls motor.stop (line 156).
SleepReturns(t) ==
    /\ tasks[t].pc = "sleep"
    /\ \A u \in tasks[t].before : tasks[u].pc # "sleep"
    /\ tasks' = Woken([tasks EXCEPT ![t] = [Issue(@, "stop") EXCEPT !.pc = "stop"]], t)
    /\ UNCHANGED <<self, position, configured, configError, motorPower, nConfigure, nMove, nFault>>

\* motor.stop returns: the move records the new estimate (line 159) and returns.
StopReturns(t) ==
    /\ tasks[t].pc = "stop"
    /\ motorPower' = 0
    /\ position' = tasks[t].target
    /\ tasks' = [tasks EXCEPT ![t] = FinishMove(self, @)]
    /\ UNCHANGED <<self, configured, configError, nConfigure, nMove, nFault>>

\* A move that records the new estimate before its stop call has returned.
StopFailsWritesEstimate(t) ==
    /\ nFault < MaxFault
    /\ nFault' = nFault + 1
    /\ tasks[t].pc = "stop"
    /\ motorPower' \in {motorPower, 0}
    /\ position' = tasks[t].target
    /\ tasks' = [tasks EXCEPT ![t] = [@ EXCEPT !.pc = "failed", !.err = "MotorFault"]]
    /\ UNCHANGED <<self, configured, configError, nConfigure, nMove>>

\* motor.stop raises.
StopFails(t) ==
    /\ nFault < MaxFault
    /\ nFault' = nFault + 1
    /\ tasks[t].pc = "stop"
    /\ motorPower' \in {motorPower, 0}
    /\ tasks' = [tasks EXCEPT ![t] = [@ EXCEPT !.pc = "failed", !.err = "MotorFault"]]
    /\ UNCHANGED <<self, position, configured, configError, nConfigure, nMove>>

\* The task is cancelled while suspended: CancelledError is raised at its await.
Cancel(t) ==
    /\ nFault < MaxFault
    /\ nFault' = nFault + 1
    /\ tasks[t].pc \in Suspended
    /\ tasks' = Woken([tasks EXCEPT ![t] = [@ EXCEPT !.pc = "cancelled",
                                                     !.err = "CancelledError"]], t)
    /\ UNCHANGED <<self, position, configured, configError, motorPower, nConfigure, nMove>>

\* A stop that waits until no move is in flight.
StopWaitsForIdle ==
    /\ configured
    /\ \A u \in DOMAIN tasks : tasks[u].pc \notin Suspended
    /\ motorPower' = 0
    /\ UNCHANGED <<self, position, configured, configError, tasks, nConfigure, nMove, nFault>>

\* A stop that cancels the moves in flight.
StopCancelsMoves ==
    /\ configured
    /\ motorPower' = 0
    /\ tasks' = [u \in DOMAIN tasks |->
                   IF tasks[u].pc \in Suspended
                   THEN [tasks[u] EXCEPT !.pc = "cancelled", !.err = "CancelledError"]
                   ELSE tasks[u]]
    /\ UNCHANGED <<self, position, configured, configError, nConfigure, nMove, nFault>>

\* A caller invokes stop(): the stop is forwarded to the motor (line 177).
Stop ==
    /\ configured
    /\ motorPower' = 0
    /\ UNCHANGED <<self, position, configured, configError, tasks, nConfigure, nMove, nFault>>

Next ==
    \/ \E attributes \in Configs : Configure(attributes) /\ UNCHANGED <<obs, physical>>
    \/ \E t \in Tasks : CalibrationStart(t) /\ UNCHANGED <<obs, physical>>
    \/ \E angle \in Angles \cup {position} : Move(angle) /\ UNCHANGED <<obs, physical>>
    \/ \E t \in Tasks : SetPowerReturns(t) /\ UNCHANGED <<obs, physical>>
    \/ \E t \in Tasks : SetPowerFails(t) /\ UNCHANGED <<obs, physical>>
    \/ \E t \in Tasks : SleepReturns(t) /\ UNCHANGED <<obs, physical>>
    \/ \E t \in Tasks : StopReturns(t) /\ UNCHANGED <<obs, physical>>
    \/ \E t \in Tasks : StopFails(t) /\ UNCHANGED <<obs, physical>>
    \/ \E t \in Tasks : Cancel(t) /\ UNCHANGED <<obs, physical>>
    \/ Stop /\ UNCHANGED <<obs, physical>>

\* The controller alone: the observer's record and the actuator's angle play
\* no part.
Spec == Init /\ [][Next]_allvars

\* ---------------------------------------------------------- sequential use
\* One accepted configuration, its calibration, then caller's moves called one
\* after the other, each only when nothing else is running, with no motor fault
\* and no cancellation.  The third move repeats the angle of the first.
MaxSeqMoves == 3
SeqAngles == Angles \cup {DefaultPosition, DefaultStartPosition}

SeqConfigure(attributes) == ~configured /\ Configure(attributes)

SeqMove(angle) ==
    /\ configured
    /\ \A t \in Tasks : tasks[t].pc \in Ended
    /\ Len(tasks) < 1 + MaxSeqMoves
    /\ Len(tasks) = 3 => angle = tasks[2].calls[1].angle
    /\ nMove' = nMove + 1
    /\ tasks' = Append(tasks, Run(self, position,
                    BeginMove(self, position, NewTask("move", position), angle)))
    /\ UNCHANGED <<self, position, configured, configError, motorPower, nConfigure, nFault>>

SeqNext ==
    \/ \E attributes \in Configs : SeqConfigure(attributes) /\ UNCHANGED <<obs, physical>>
    \/ \E t \in Tasks : CalibrationStart(t) /\ UNCHANGED <<obs, physical>>
    \/ \E angle \in SeqAngles : SeqMove(angle) /\ UNCHANGED <<obs, physical>>
    \/ \E t \in Tasks : SetPowerReturns(t) /\ UNCHANGED <<obs, physical>>
    \/ \E t \in Tasks : SleepReturns(t) /\ UNCHANGED <<obs, physical>>
    \/ \E t \in Tasks : StopReturns(t) /\ UNCHANGED <<obs, physical>>

SeqSpec == Init /\ [][SeqNext]_allvars

\* ------------------------------------------------------------ observation
\* A caller reads the estimate with get_position while configuration events
\* and calibrations go on.  `obs` is the caller's record of the last read:
\* whether there was one, the value it returned, and whether any task (move
\* invocation) acted and whether a configuration event happened since.
\* A returned value that is clamped to the bounds.
get_position_clamped ==
    Clamp(position, self.min_position_degrees, self.max_position_degrees)

\* get_position returns self.position.
get_position == position

\* What a step of the controller does to the caller's record.
Observe ==
    obs' = [obs EXCEPT !.moved = @ \/ (\E t \in Tasks : tasks'[t] # tasks[t]),
                       !.reconf = @ \/ (nConfigure' # nConfigure)]

GetPosition ==
    /\ configured
    /\ obs' = [called |-> TRUE, got |-> get_position, moved |-> FALSE, reconf |-> FALSE]
    /\ UNCHANGED vars

ObsNext ==
    \/ \E attributes \in Configs : Configure(attributes) /\ Observe /\ UNCHANGED physical
    \/ \E t \in Tasks : CalibrationStart(t) /\ Observe /\ UNCHANGED physical
    \/ \E t \in Tasks : SetPowerReturns(t) /\ Observe /\ UNCHANGED physical
    \/ \E t \in Tasks : SleepReturns(t) /\ Observe /\ UNCHANGED physical
    \/ \E t \in Tasks : StopReturns(t) /\ Observe /\ UNCHANGED physical
    \/ GetPosition /\ UNCHANGED physical

ObsSpec == Init /\ [][ObsNext]_allvars

\* ------------------------------------------------------------- calibration
\* One accepted configuration and its calibration, with no fault and no other
\* motion, driving an actuator whose physical angle follows the motor: while
\* the motor runs for a move's timed wait the actuator travels the angle that
\* wait was computed for, in the direction of the power, and stays at a
\* mechanical stop once it reaches it.  The stops are at min_position_degrees
\* and max_position_degrees.
LowerStop(s) == Min(s.min_position_degrees, s.max_position_degrees)
UpperStop(s) == Max(s.min_position_degrees, s.max_position_degrees)

\* The physical angles the actuator may be at when the controller is configured.
PhysicalAngles(s) == LowerStop(s)..UpperStop(s)

\* The physical angle after the motor has run for the move task t has in progress.
Travel(t) ==
    LET to == physical + (tasks[t].target - tasks[t].calls[Len(tasks[t].calls)].pos)
    IN  Max(LowerStop(self), Min(to, UpperStop(self)))

CalConfigure(attributes) ==
    /\ ~configured
    /\ Configure(attributes)
    /\ physical' \in IF configError' = "" THEN PhysicalAngles(self') ELSE {physical}
    /\ UNCHANGED obs

CalStopReturns(t) ==
    /\ StopReturns(t)
    /\ physical' = Travel(t)
    /\ UNCHANGED obs

CalNext ==
    \/ \E attributes \in Configs : CalConfigure(attributes)
    \/ \E t \in Tasks : CalibrationStart(t) /\ UNCHANGED <<obs, physical>>
    \/ \E t \in Tasks : SetPowerReturns(t) /\ UNCHANGED <<obs, physical>>
    \/ \E t \in Tasks : SleepReturns(t) /\ UNCHANGED <<obs, physical>>
    \/ \E t \in Tasks : CalStopReturns(t)

CalSpec == Init /\ [][CalNext]_allvars

\* ============================================================ properties
\* The mathematical clamp of a into [lo, hi].
clamp(a, lo, hi) == IF a < lo THEN lo ELSE IF a > hi THEN hi ELSE a

\* The i-th move invocation of task t is over (it returned or ended with an error).
Over(t, i) == i < Len(tasks[t].calls) \/ tasks[t].pc \in Ended

\* The bounds a move was called under are well formed.
WellFormed(c) == c.min <= c.max

\* The move invocation task t has in progress, and its position in `calls`.
Cur(t) == tasks[t].calls[Len(tasks[t].calls)]

\* C1: every move invocation whose set_power the motor accepted issues its stop
\* before it ends, however it ends (error or cancellation).
C1_StopFollowsSetPower ==
    \A t \in Tasks : \A i \in 1 .. Len(tasks[t].calls) :
        (Over(t, i) /\ tasks[t].calls[i].ran) =>
            tasks[t].calls[i].cmds = <<"set_power", "stop">>

\* C2: once configured, the estimate lies within the bounds of the current
\* configuration in every reachable state.
C2_EstimateInRange ==
    configured => (self.min_position_degrees <= position
                   /\ position <= self.max_position_degrees)

\* C3: a step changes the estimate only if it is a configuration event or the
\* last step of a move whose stop has been issued and has returned, which sets
\* it to that move's target; the step in which a move ends with an error or a
\* cancellation leaves the estimate as it is.
C3_EstimateWrittenLast ==
    [][ /\ position' # position =>
            \/ nConfigure' # nConfigure
            \/ \E t \in Tasks :
                  /\ tasks[t].pc = "stop"
                  /\ Cur(t).cmds = <<"set_power", "stop">>
                  /\ Len(tasks'[t].rets) > Len(tasks[t].rets)
                  /\ position' = tasks[t].target
        /\ \A t \in Tasks :
              (/\ tasks[t].pc \in Suspended
               /\ tasks'[t].pc \in {"failed", "cancelled"}
               /\ Len(tasks'[t].calls) = Len(tasks[t].calls)) => position' = position
      ]_vars

\* A move whose stop call failed has ended and the estimate is still the one
\* it was called with, not its target.
C3_Witness ==
    \E t \in Tasks :
        /\ tasks[t].pc = "failed"
        /\ Cur(t).cmds = <<"set_power", "stop">>
        /\ position = Cur(t).pos
        /\ position # tasks[t].target

C5_MoveToEstimateIsNoOp ==
    \A t \in Tasks : \A i \in 1 .. Len(tasks[t].calls) :
        LET c == tasks[t].calls[i]
        IN  c.angle = c.pos =>
                /\ c.cmds = <<>>
                /\ i <= Len(tasks[t].rets)
                /\ tasks[t].rets[i].pos = c.pos

\* C6: a calibration task invokes at most three moves, to min_angle, to
\* max_angle and to the estimate of the moment it was scheduled, each after the
\* previous one has returned; once it has completed it has invoked exactly three
\* and the third returned with the estimate equal to that pre-calibration
\* value (stated for well-formed bounds).
C6_CalibrationSequence ==
    \A t \in Tasks :
        LET tk == tasks[t]
            n == Len(tk.calls)
        IN  (tk.kind = "cal" /\ \A i \in 1 .. n : WellFormed(tk.calls[i])) =>
                /\ n <= 3
                /\ Len(tk.rets) >= n - 1
                /\ n >= 1 => tk.calls[1].angle = tk.calls[1].min
                /\ n >= 2 => tk.calls[2].angle = tk.calls[2].max
                /\ n >= 3 => tk.calls[3].angle = tk.schedPos
                /\ tk.pc = "done" =>
                      (n = 3 /\ Len(tk.rets) = 3 /\ tk.rets[3].pos = tk.schedPos)

\* C7: once a motor call has failed in a calibration task, the task never
\* takes another step (no later move, no retry); the step in which the call
\* fails ends the task, invokes no move and leaves the estimate as it is, and
\* the failed task has completed exactly the steps before the failing one.
C7_CalibrationAborts ==
    [][ \A t \in Tasks :
          tasks[t].kind = "cal" =>
            /\ tasks[t].err = "MotorFault" => tasks'[t] = tasks[t]
            /\ (tasks[t].err # "MotorFault" /\ tasks'[t].err = "MotorFault") =>
                  /\ tasks'[t].pc = "failed"
                  /\ tasks'[t].calls = tasks[t].calls
                  /\ Len(tasks'[t].rets) = Len(tasks[t].calls) - 1
                  /\ position' = position
      ]_vars

\* A calibration task whose second move failed at the motor: it has invoked two
\* moves, the first ran the motor and returned, and the estimate is the value
\* that first move set.
C7_Witness ==
    \E t \in Tasks :
        /\ tasks[t].kind = "cal"
        /\ tasks[t].pc = "failed"
        /\ tasks[t].err = "MotorFault"
        /\ Len(tasks[t].calls) = 2
        /\ tasks[t].calls[1].cmds = <<"set_power", "stop">>
        /\ position = tasks[t].rets[1].pos

\* C8: no accepted configuration has total_degrees = 0 or mm_per_second = 0,
\* and no move ever ends with a division by zero.
C8_ZeroDenominatorRejected ==
    /\ configured => (self.total_degrees # 0 /\ self.mm_per_second # 0)
    /\ \A t \in Tasks : tasks[t].err # "ZeroDivisionError"

\* The attributes lack a required key.
LacksRequired(attributes) ==
    \E k \in {"motor", "length_inches", "mm_per_second"} : k \notin DOMAIN attributes

\* C9: a configuration event whose attributes lack motor, length_inches or
\* mm_per_second raises an error and schedules no calibration: it leaves the
\* tasks, the instance attributes, the estimate and the motor as they were.
C9_MissingRequiredRejected ==
    [][ \A attributes \in Configs :
          (LacksRequired(attributes) /\ Configure(attributes)) =>
              /\ configError' # ""
              /\ UNCHANGED <<tasks, self, position, configured, motorPower>>
      ]_vars

\* A configuration lacking a required attribute has been rejected after an
\* accepted one: the only calibration task is that of the accepted one.
C9_Witness ==
    /\ configured
    /\ nConfigure = 2
    /\ configError = "Exception"
    /\ Len(tasks) = 1

\* C10: after an accepted configuration event the bounds, the span and the
\* estimate are those of its attributes alone, an absent one taking its default.
C10_ConfigureReplaces ==
    [][ \A attributes \in Configs :
          (Configure(attributes) /\ configError' = "") =>
              /\ self'.min_position_degrees
                    = Get(attributes, "min_position_degrees", DefaultMinPositionDegrees)
              /\ self'.max_position_degrees
                    = Get(attributes, "max_position_degrees", DefaultMaxPositionDegrees)
              /\ self'.total_degrees
                    = Get(attributes, "total_degrees", DefaultTotalDegrees)
              /\ position' = Get(attributes, "start_position", DefaultStartPosition)
      ]_vars

\* C11: an accepted configuration event sets the estimate to the start angle of
\* its attributes (90 when absent), adds exactly one calibration task, which has
\* not run yet (no move invoked, no motor command), and leaves every other task
\* and the motor as they were.
C11_ConfigureSchedulesCalibration ==
    [][ \A attributes \in Configs :
          (Configure(attributes) /\ configError' = "") =>
              /\ position' = IF "start_position" \in DOMAIN attributes
                             THEN attributes.start_position ELSE DefaultStartPosition
              /\ Len(tasks') = Len(tasks) + 1
              /\ \A t \in Tasks : tasks'[t] = tasks[t]
              /\ tasks'[Len(tasks')].kind = "cal"
              /\ tasks'[Len(tasks')].pc = "scheduled"
              /\ tasks'[Len(tasks')].calls = <<>>
              /\ motorPower' = motorPower
      ]_vars

\* A second configuration has just been accepted while the first calibration
\* is in its timed wait: the new calibration is scheduled and has not run, the
\* estimate is the new start angle.
C11_Witness ==
    /\ Len(tasks) = 2
    /\ tasks[1].pc = "sleep"
    /\ tasks[2].kind = "cal"
    /\ tasks[2].pc = "scheduled"
    /\ position = 45
    /\ motorPower = -1

\* C12: a move that has issued set_power commanded -1 when its clamped target is
\* below the estimate it was called with and +1 when it is above; the motor
\* never holds another power than -1, 0 (stopped) or +1.
C12_PowerIsDirection ==
    /\ motorPower \in {-1, 0, 1}
    /\ \A t \in Tasks :
          tasks[t].pc \in Suspended =>
              /\ Cur(t).cmds[1] = "set_power"
              /\ \/ tasks[t].target < Cur(t).pos /\ tasks[t].power = -1
                 \/ tasks[t].target > Cur(t).pos /\ tasks[t].power = 1

\* Two moves are in their timed waits, one commanded -1 and one +1.
C12_Witness ==
    \E t, u \in Tasks :
        /\ tasks[t].pc = "sleep" /\ tasks[t].power = -1
        /\ tasks[u].pc = "sleep" /\ tasks[u].power = 1

\* C14: in every state of a configured controller (idle, mid-move, during
\* calibration) stop() can be called and completes in one step: it stops the
\* motor and changes neither the estimate, nor the configuration, nor any task.
C14_StopUnconditional ==
    configured =>
        ENABLED (/\ Stop
                 /\ motorPower' = 0
                 /\ UNCHANGED <<position, self, tasks>>)

\* An external stop has stopped the motor while the only task, a move, is
\* still in its timed wait.
C14_Witness ==
    /\ Len(tasks) = 1
    /\ tasks[1].pc = "sleep"
    /\ Cur(1).ran
    /\ motorPower = 0

\* C18: a caller's move is accepted in every state of a configured controller,
\* whatever the other tasks are doing: it is called with the estimate as it is
\* at that moment, leaves the other tasks alone and, when its clamped target
\* differs from that estimate, has issued its set_power before it suspends.
C18_MovesNotSerialized ==
    (configured /\ nMove < MaxMove) =>
        \A angle \in Angles :
            ENABLED (/\ Move(angle)
                     /\ \A t \in Tasks : tasks'[t] = tasks[t]
                     /\ LET new == tasks'[Len(tasks')]
                        IN  /\ new.calls[1].pos = position
                            /\ (new.target # position /\ ~DivisionByZero(self)) =>
                                  /\ new.pc = "set_power"
                                  /\ new.calls[1].cmds = <<"set_power">>)

\* A calibration move and a caller's move are both in their timed waits; the
\* caller's move was called with the estimate the calibration's first move had
\* set, that is, after the calibration's second move was called.
C18_Witness ==
    \E c, m \in Tasks :
        /\ tasks[c].kind = "cal" /\ tasks[m].kind = "move"
        /\ tasks[c].pc = "sleep" /\ tasks[m].pc = "sleep"
        /\ Len(tasks[c].calls) = 2
        /\ Len(tasks) = 2
        /\ tasks[c].calls[1].pos # tasks[c].calls[2].pos
        /\ tasks[m].calls[1].pos = tasks[c].calls[2].pos
        /\ position = tasks[c].calls[2].pos

\* C19: a step that is a caller's move call or a stop() leaves every existing
\* task as it is (a move in flight keeps its target, its duration and its
\* place), and the step in which a move's own stop returns sets the estimate to
\* that move's own target, whatever other moves did meanwhile.
C19_NoPreemption ==
    [][ /\ (nMove' # nMove \/ Stop) =>
              \A t \in Tasks : tasks'[t] = tasks[t]
        /\ \A t \in Tasks :
              (tasks[t].pc = "stop" /\ Len(tasks'[t].rets) > Len(tasks[t].rets)) =>
                  position' = tasks[t].target
      ]_vars

\* A caller's move was called during the calibration's second move (it saw the
\* estimate the first had set) and has completed at its own target; the
\* calibration's second move completed after it, and the estimate is the
\* target of that earlier-called move.
C19_Witness ==
    \E c, m \in Tasks :
        /\ Len(tasks) = 2 /\ nConfigure = 1
        /\ tasks[c].kind = "cal" /\ tasks[m].kind = "move"
        /\ tasks[m].pc = "done"
        /\ tasks[m].calls[1].cmds = <<"set_power", "stop">>
        /\ tasks[c].pc = "set_power" /\ Len(tasks[c].calls) = 3
        /\ tasks[c].calls[1].pos # tasks[c].calls[2].pos
        /\ tasks[m].calls[1].pos = tasks[c].calls[2].pos
        /\ position = tasks[c].rets[2].pos
        /\ position # tasks[m].rets[1].pos

\* C20: a configuration event leaves every existing task as it is, and the
\* step in which a move's stop returns sets the estimate to its argument
\* clamped under the bounds in force when it was called, whatever the bounds
\* are by then.
C20_ReconfigureKeepsTasks ==
    [][ /\ nConfigure' # nConfigure => \A t \in Tasks : tasks'[t] = tasks[t]
        /\ \A t \in Tasks :
              (tasks[t].pc = "stop" /\ Len(tasks'[t].rets) > Len(tasks[t].rets)) =>
                  position' = IF WellFormed(Cur(t))
                              THEN clamp(Cur(t).angle, Cur(t).min, Cur(t).max)
                              ELSE Cur(t).min
      ]_vars

\* The first calibration's first move, called under the first configuration,
\* returned after the reconfiguration with the estimate outside the new bounds;
\* that calibration went on to its second move under the new bounds while the
\* calibration of the second configuration is running too.
C20_Witness ==
    /\ Len(tasks) = 2
    /\ tasks[1].kind = "cal" /\ tasks[2].kind = "cal"
    /\ Len(tasks[1].calls) = 2
    /\ tasks[1].calls[1].max # tasks[1].rets[1].max
    /\ tasks[1].rets[1].pos < tasks[1].rets[1].min
    /\ tasks[1].calls[2].max = tasks[1].rets[1].max
    /\ tasks[1].pc \in Suspended
    /\ tasks[2].pc \in Suspended

\* C13 (as stated): after move(X), move(Y), move(X), each run to completion with
\* nothing else running, the estimate is X.
C13_RoundTripExact ==
    (/\ Len(tasks) >= 4
     /\ \A t \in 2..4 : tasks[t].pc = "done") =>
        tasks[4].rets[1].pos = tasks[2].calls[1].angle

\* C13 (amended): after move(X), move(Y), move(X), each run to completion with
\* nothing else running, the estimate is X clamped to the bounds as move clamps
\* it, and the X-to-Y move and the Y-to-X move run the motor equally long.
C13_RoundTripClamped ==
    (/\ Len(tasks) >= 4
     /\ \A t \in 2..4 : tasks[t].pc = "done") =>
        LET c == tasks[4].calls[1]
        IN  /\ tasks[4].rets[1].pos = IF WellFormed(c) THEN clamp(c.angle, c.min, c.max)
                                      ELSE c.min
            /\ c.angle = tasks[2].calls[1].angle
            /\ tasks[3].time_needed = tasks[4].time_needed
            /\ tasks[3].calls[1].ran = tasks[4].calls[1].ran

\* The three moves are done, the second and the third ran the motor, and the
\* first and third were called with an angle above the upper bound.
C13_Witness ==
    /\ Len(tasks) = 4
    /\ \A t \in 2..4 : tasks[t].pc = "done"
    /\ tasks[3].calls[1].cmds = <<"set_power", "stop">>
    /\ tasks[4].calls[1].cmds = <<"set_power", "stop">>
    /\ tasks[4].time_needed > 0
    /\ tasks[4].calls[1].angle > tasks[4].calls[1].max
    /\ position = tasks[4].calls[1].max

\* C16: the timed wait of a move that runs the motor is
\* |target - estimate| * (length_inches / total_degrees) * 25.4 / mm_per_second,
\* here in whole milliseconds (mm_per_second is held in tenths of a millimetre);
\* with length_inches 18, mm_per_second 25.4, total_degrees 180 a move from 0 to
\* 90 waits 9 seconds at power +1, issues set_power then stop, and leaves the
\* estimate at 90.
C16_DurationLaw ==
    \A t \in Tasks :
        (tasks[t].pc \in Suspended \/ (tasks[t].pc = "done" /\ Cur(t).ran)) =>
            LET d   == Abs(tasks[t].target - Cur(t).pos)
                num == d * self.length_inches * 254 * 1000
                den == self.total_degrees * self.mm_per_second
            IN  /\ tasks[t].time_needed * den <= num
                /\ num < (tasks[t].time_needed + 1) * den
                /\ (/\ self.length_inches = 18 /\ self.mm_per_second = 254
                    /\ self.total_degrees = 180
                    /\ Cur(t).pos = 0 /\ tasks[t].target = 90) =>
                       /\ tasks[t].time_needed = 9000
                       /\ tasks[t].power = 1
                       /\ tasks[t].pc = "done" =>
                             /\ Cur(t).cmds = <<"set_power", "stop">>
                             /\ tasks[t].rets[Len(tasks[t].rets)].pos = 90

\* A caller's move from 0 to 90 under length_inches 18, mm_per_second 25.4,
\* total_degrees 180 has completed.
C16_Witness ==
    \E t \in Tasks :
        /\ tasks[t].kind = "move" /\ tasks[t].pc = "done"
        /\ tasks[t].calls[1].pos = 0 /\ tasks[t].calls[1].angle = 90
        /\ tasks[t].calls[1].ran
        /\ self.length_inches = 18 /\ self.mm_per_second = 254
        /\ self.total_degrees = 180
        /\ position = 90

\* C15 (as stated): a get_position call after an earlier one, with no move
\* acting in between, returns the value the earlier one returned.
C15_SameWithoutMove ==
    (obs.called /\ ~obs.moved) => position = obs.got

\* C15 (amended): get_position can be called in every state of a configured
\* controller, returns the
\* estimate as it is and changes nothing of the controller; a call after an
\* earlier one, with no move acting and no configuration event in between,
\* returns the value the earlier one returned.
C15_SameWithoutMoveOrConfigure ==
    /\ configured => ENABLED (GetPosition /\ obs'.got = position /\ UNCHANGED vars)
    /\ (obs.called /\ ~obs.moved /\ ~obs.reconf) => position = obs.got

\* A read returned an estimate outside the bounds while a calibration move was
\* in its timed wait, and nothing has happened since.
C15_Witness ==
    /\ obs.called /\ ~obs.moved /\ ~obs.reconf
    /\ obs.got > self.max_position_degrees
    /\ Len(tasks) = 1
    /\ tasks[1].pc = "sleep"
    /\ motorPower # 0

\* C17: when total_degrees = max_position_degrees - min_position_degrees and
\* the actuator stays at its mechanical stops, a calibration that has completed
\* with no fault and no other motion leaves the physical angle equal to the
\* estimate, whatever physical angle between the stops it started from.
C17_CalibrationAligns ==
    \A t \in Tasks :
        (/\ tasks[t].kind = "cal" /\ tasks[t].pc = "done"
         /\ self.total_degrees = self.max_position_degrees - self.min_position_degrees) =>
            physical = position

\* A calibration has completed that started from an estimate above the upper
\* stop, where the actuator cannot have been, and that ran the motor in its
\* first two moves.
C17_Witness ==
    /\ Len(tasks) = 1
    /\ tasks[1].pc = "done"
    /\ tasks[1].schedPos > self.max_position_degrees
    /\ self.total_degrees = self.max_position_degrees - self.min_position_degrees
    /\ tasks[1].calls[1].ran /\ tasks[1].calls[2].ran
    /\ physical = self.max_position_degrees

====
